---- MODULE Spec2Model ----
(***************************************************************************)
(* Model of the block-sync engine of zebrad's `start` command              *)
(* (zebrad/src/commands/start.rs): struct Core and its methods run,        *)
(* next_hashes, request_blocks and drain_requests.                         *)
(*                                                                         *)
(* The engine is one sequential async task; pc is its position.  The       *)
(* Network Service and the State Service are collaborators whose answers   *)
(* are nondeterministic: every await on them has a success and a failure   *)
(* outcome, and a fetch future of the pool may complete at any time the    *)
(* engine polls the pool, in any order (FuturesUnordered).                 *)
(*                                                                         *)
(* The three numeric parameters of the engine are scaled down so that the  *)
(* reachable states can be enumerated:                                     *)
(*   TargetHeight   stands for 700_000 (start.rs:150)                      *)
(*   InFlightGoal   stands for 300     (start.rs:158)                      *)
(*   ChunkSize      stands for 10      (start.rs:201)                      *)
(* Every formula is stated in terms of these names, never of their values. *)
(***************************************************************************)
EXTENDS Integers, Sequences, FiniteSets, TLC

\* ------------------------------------------------- the engine's parameters
\* `while self.requested_block_heights < 700_000`, scaled
TargetHeight == 2
\* `self.drain_requests(300)`, scaled
InFlightGoal == 2
\* `hashes.chunks(10usize)`, scaled
ChunkSize == 2
\* static GENESIS: the hash the tip starts from (an abstract value; the
\* hashes the network returns are 1..MaxHash)
GENESIS == 0

\* ---------------------------------------------------------------- bounds
\* longest list of hashes a FindBlocks response carries
MaxBatch == 3
\* hashes the network can return are 1..MaxHash
MaxHash == 2
\* longest list of blocks a BlocksByHash response carries
MaxBlocks == 2
\* coinbase heights of the blocks the network can return are 0..MaxHeight
MaxHeight == 3
\* re-issues the tower::retry adapter makes before it surfaces the error
MaxRetries == 1

VARIABLES
    pc,                         \* position of the task inside Core::run
    tip,                        \* Core.tip
    requested_block_heights,    \* Core.requested_block_heights
    downloaded_block_heights,   \* Core.downloaded_block_heights
    block_requests,             \* Core.block_requests: ids of the futures in the pool
    hashes,                     \* run's local `hashes`, moved into request_blocks
    chunks,                     \* the slice left to the hashes.chunks(10) iterator
    request_goal,               \* drain_requests' argument
    drain_ret,                  \* where the running drain_requests call returns to
    blocks,                     \* how many blocks are left to the `for block in blocks`
                                \* loop; a block's content is read when the loop takes it
    block,                      \* the block of the running loop body: <<id, block>>
    find_req,                   \* the FindBlocks request awaiting its response
    retries,                    \* re-issues done by the retry adapter for find_req
    state,                      \* State Service: the blocks whose AddBlock it acknowledged
    \* -- history of what the collaborators saw and answered
    issued,                     \* every BlocksByHash request ever issued, by id
    requests,                   \* the BlocksByHash requests of the running request_blocks call
    outcome,                    \* how each issued future resolved ("pending" if not) and
                                \* how many blocks of its response are not acknowledged yet
    found,                      \* the sizes of the hash lists FindBlocks returned
    calls,                      \* how many FindBlocks calls next_hashes has made
    logged,                     \* ids whose error went to error!()
    fault,                      \* why run ended, "none" while it has not
    entry                       \* the state drain_requests was called in

vars == <<pc, tip, requested_block_heights, downloaded_block_heights,
          block_requests, hashes, chunks, request_goal, drain_ret, blocks,
          block, find_req, retries, state, issued, requests, outcome, found,
          calls, logged, fault, entry>>

\* ------------------------------------------------------------ data types
Hashes == 1..MaxHash
Heights == 0..MaxHeight

RECURSIVE SeqsUpTo(_, _)
SeqsUpTo(S, n) ==
    IF n = 0 THEN {<<>>}
    ELSE LET shorter == SeqsUpTo(S, n - 1)
         IN  shorter \cup {Append(s, x) : s \in {t \in shorter : Len(t) = n - 1}, x \in S}

\* zebra_chain Block as far as the engine reads it: coinbase_height() is an
\* Option<BlockHeight>, <<>> for None and <<h>> for Some(h)
Block == [coinbase_height : {<<>>} \cup {<<h>> : h \in Heights}]

\* zebra_network::Response to FindBlocks
HashLists == SeqsUpTo(Hashes, MaxBatch)
\* zebra_network::Response to BlocksByHash: the lengths Blocks(blocks) can have
BlockCounts == 0..MaxBlocks

Min(a, b) == IF a < b THEN a ELSE b
Last(s) == s[Len(s)]

\* slice::chunks: the next chunk is the first min(len, size) elements
ChunkHead(s) == SubSeq(s, 1, Min(Len(s), ChunkSize))
ChunkRestSkip(s) == SubSeq(s, Min(Len(s), ChunkSize) + 2, Len(s))
ChunkRest(s) == SubSeq(s, Min(Len(s), ChunkSize) + 1, Len(s))

\* FuturesUnordered::len
PoolLen == Cardinality(block_requests)

\* the futures that have completed and were taken out of the pool
Resolved == {i \in 1..Len(outcome) : outcome[i].kind # "pending"}

\* the snapshot taken when drain_requests is entered
Entry ==
    [len |-> PoolLen, pool |-> block_requests,
     heights |-> downloaded_block_heights, state |-> state,
     resolved |-> Cardinality(Resolved)]

\* no drain_requests call is running
NoEntry == [len |-> 0, pool |-> {}, heights |-> {}, state |-> {}, resolved |-> 0]

\* ----------------------------------------------------------------- Init
\* StartCmd::start: the Core it builds
Init ==
    /\ pc = "run"
    /\ tip = GENESIS
    /\ requested_block_heights = 0
    /\ downloaded_block_heights = {0}
    /\ block_requests = {}
    /\ hashes = <<>>
    /\ chunks = <<>>
    /\ request_goal = 0
    /\ drain_ret = "run"
    /\ blocks = 0
    /\ block = <<>>
    /\ find_req = <<>>
    /\ retries = 0
    /\ state = {}
    /\ issued = <<>>
    /\ requests = <<>>
    /\ outcome = <<>>
    /\ found = <<>>
    /\ calls = 0
    /\ logged = {}
    /\ fault = "none"
    /\ entry = NoEntry

\* ------------------------------------------------------------- Core::run
\* the loop condition of run (line 150)
RunGateInclusive == requested_block_heights <= TargetHeight
RunGate == requested_block_heights < TargetHeight

\* `while self.requested_block_heights < 700_000`: enter the body
RunLoop ==
    /\ pc = "run"
    /\ RunGate
    /\ pc' = "next_hashes"
    /\ UNCHANGED <<tip, requested_block_heights, downloaded_block_heights,
                   block_requests, hashes, chunks, request_goal, drain_ret,
                   blocks, block, find_req, retries, state, issued, requests,
                   outcome, found, calls, logged, fault, entry>>

\* the goal of the drain that follows the loop: `self.drain_requests(0)`
FinalGoalCeiling == InFlightGoal
FinalGoal == 0

\* the loop is left: `self.drain_requests(0)` is called
RunFinalDrainThenReturn ==
    /\ pc = "run"
    /\ ~RunGate
    /\ pc' = "drain"
    /\ request_goal' = FinalGoal
    /\ drain_ret' = "returned"
    /\ entry' = Entry
    /\ UNCHANGED <<tip, requested_block_heights, downloaded_block_heights,
                   block_requests, hashes, chunks, blocks, block, find_req,
                   retries, state, issued, requests, outcome, found, calls,
                   logged, fault>>
RunFinalDrain ==
    /\ pc = "run"
    /\ ~RunGate
    /\ pc' = "drain"
    /\ request_goal' = FinalGoal
    /\ drain_ret' = "idle"
    /\ entry' = Entry
    /\ UNCHANGED <<tip, requested_block_heights, downloaded_block_heights,
                   block_requests, hashes, chunks, blocks, block, find_req,
                   retries, state, issued, requests, outcome, found, calls,
                   logged, fault>>

\* ----------------------------------------------------- Core::next_hashes
\* retry_peer_set.ready_and() succeeded: call(FindBlocks{known_blocks: [tip], stop: None})
FindBlocksCallPipelined ==
    /\ pc \in {"next_hashes", "find_blocks"}
    /\ find_req' = <<[known_blocks |-> <<tip>>, stop |-> <<>>]>>
    /\ retries' = 0
    /\ calls' = calls + 1
    /\ pc' = "find_blocks"
    /\ UNCHANGED <<tip, requested_block_heights, downloaded_block_heights,
                   block_requests, hashes, chunks, request_goal, drain_ret,
                   blocks, block, state, issued, requests, outcome, found,
                   logged, fault, entry>>
FindBlocksCall ==
    /\ pc = "next_hashes"
    /\ find_req' = <<[known_blocks |-> <<tip>>, stop |-> <<>>]>>
    /\ retries' = 0
    /\ calls' = calls + 1
    /\ pc' = "find_blocks"
    /\ UNCHANGED <<tip, requested_block_heights, downloaded_block_heights,
                   block_requests, hashes, chunks, request_goal, drain_ret,
                   blocks, block, state, issued, requests, outcome, found,
                   logged, fault, entry>>

\* retry_peer_set.ready_and() failed: `?` returns the error from run
FindBlocksNotReady ==
    /\ pc = "next_hashes"
    /\ pc' = "error"
    /\ fault' = "discovery"
    /\ UNCHANGED <<tip, requested_block_heights, downloaded_block_heights,
                   block_requests, hashes, chunks, request_goal, drain_ret,
                   blocks, block, find_req, retries, state, issued, requests,
                   outcome, found, calls, logged, entry>>

\* the retry adapter re-issues the same request after a retryable error
FindBlocksRetry ==
    /\ pc = "find_blocks"
    /\ retries < MaxRetries
    /\ retries' = retries + 1
    /\ UNCHANGED <<pc, tip, requested_block_heights, downloaded_block_heights,
                   block_requests, hashes, chunks, request_goal, drain_ret,
                   blocks, block, find_req, state, issued, requests, outcome,
                   found, calls, logged, fault, entry>>

\* the call failed for good: map_err, wrap_err, and `?` in run
FindBlocksErr ==
    /\ pc = "find_blocks"
    /\ find_req' = <<>>
    /\ pc' = "error"
    /\ fault' = "discovery"
    /\ UNCHANGED <<tip, requested_block_heights, downloaded_block_heights,
                   block_requests, hashes, chunks, request_goal, drain_ret,
                   blocks, block, retries, state, issued, requests, outcome,
                   found, calls, logged, entry>>

\* a response that is not BlockHeaderHashes: unreachable!() panics
FindBlocksOther ==
    /\ pc = "find_blocks"
    /\ find_req' = <<>>
    /\ pc' = "panic"
    /\ fault' = "unreachable"
    /\ UNCHANGED <<tip, requested_block_heights, downloaded_block_heights,
                   block_requests, hashes, chunks, request_goal, drain_ret,
                   blocks, block, retries, state, issued, requests, outcome,
                   found, calls, logged, entry>>

\* `self.requested_block_heights += hashes.len()` (line 195)
RequestedByOne(n, hs) == n + 1
Requested(n, hs) == n + Len(hs)

\* `self.tip = *hashes.last().unwrap()` (line 152), for a non-empty list
NewTipFirst(hs) == hs[1]
NewTip(hs) == Last(hs)

\* Ok(BlockHeaderHashes(hs)): the counter advances by hs.len(); back in run,
\* hashes.last().unwrap() panics on an empty list and sets the tip otherwise
FindBlocksOk(hs) ==
    /\ pc = "find_blocks"
    /\ find_req' = <<>>
    /\ requested_block_heights' = Requested(requested_block_heights, hs)
    /\ found' = Append(found, Len(hs))
    /\ IF hs = <<>>
       THEN /\ pc' = "panic"
            /\ fault' = "unwrap_last"
            /\ UNCHANGED <<tip, hashes, chunks, requests>>
       ELSE /\ tip' = NewTip(hs)
            /\ hashes' = hs
            /\ chunks' = hs
            /\ requests' = <<>>
            /\ pc' = "request_blocks"
            /\ UNCHANGED fault
    /\ UNCHANGED <<downloaded_block_heights, block_requests, request_goal,
                   drain_ret, blocks, block, retries, state, issued, outcome,
                   calls, logged, entry>>

\* --------------------------------------------------- Core::request_blocks
\* one turn of `for chunk in hashes.chunks(10)`: peer_set.ready_and() succeeded,
\* BlocksByHash(chunk) is called and its future pushed into the pool
RequestChunk ==
    /\ pc = "request_blocks"
    /\ chunks # <<>>
    /\ LET id == Len(issued) + 1
       IN  /\ issued' = Append(issued, [batch |-> Len(found), chunk |-> Len(requests) + 1])
           /\ requests' = Append(requests, ChunkHead(chunks))
           /\ outcome' = Append(outcome, [kind |-> "pending", left |-> 0])
           /\ block_requests' = block_requests \cup {id}
    /\ chunks' = ChunkRest(chunks)
    /\ UNCHANGED <<pc, tip, requested_block_heights, downloaded_block_heights,
                   hashes, request_goal, drain_ret, blocks, block, find_req,
                   retries, state, found, calls, logged, fault, entry>>

\* peer_set.ready_and() failed: `?` returns the error from run
RequestNotReady ==
    /\ pc = "request_blocks"
    /\ chunks # <<>>
    /\ pc' = "error"
    /\ fault' = "issue"
    /\ UNCHANGED <<tip, requested_block_heights, downloaded_block_heights,
                   block_requests, hashes, chunks, request_goal, drain_ret,
                   blocks, block, find_req, retries, state, issued, requests,
                   outcome, found, calls, logged, entry>>

\* request_blocks returns Ok(()) and run calls `self.drain_requests(300)`
RequestDone ==
    /\ pc = "request_blocks"
    /\ chunks = <<>>
    /\ hashes' = <<>>
    /\ requests' = <<>>
    /\ pc' = "drain"
    /\ request_goal' = InFlightGoal
    /\ drain_ret' = "run"
    /\ entry' = Entry
    /\ UNCHANGED <<tip, requested_block_heights, downloaded_block_heights,
                   block_requests, chunks, blocks, block, find_req, retries,
                   state, issued, outcome, found, calls, logged, fault>>

\* --------------------------------------------------- Core::drain_requests
\* the loop condition of drain_requests (line 213)
DrainGateLoose == PoolLen > request_goal + 1
DrainGateInclusive == PoolLen >= request_goal
DrainGate == PoolLen > request_goal

\* block_requests.next() yields Err(e): error!() logs it, the loop goes on
DrainErrFatal(id) ==
    /\ pc = "drain"
    /\ DrainGate
    /\ id \in block_requests
    /\ block_requests' = block_requests \ {id}
    /\ outcome' = [outcome EXCEPT ![id] = [kind |-> "err", left |-> 0]]
    /\ logged' = logged \cup {id}
    /\ pc' = "error"
    /\ fault' = "fetch"
    /\ UNCHANGED <<tip, requested_block_heights, downloaded_block_heights,
                   hashes, chunks, request_goal, drain_ret, blocks, block,
                   find_req, retries, state, issued, requests, found, calls,
                   entry>>
DrainErrClears(id) ==
    /\ pc = "drain"
    /\ DrainGate
    /\ id \in block_requests
    /\ block_requests' = {}
    /\ outcome' = [outcome EXCEPT ![id] = [kind |-> "err", left |-> 0]]
    /\ logged' = logged \cup {id}
    /\ UNCHANGED <<pc, tip, requested_block_heights, downloaded_block_heights,
                   hashes, chunks, request_goal, drain_ret, blocks, block,
                   find_req, retries, state, issued, requests, found, calls,
                   fault, entry>>
DrainErr(id) ==
    /\ pc = "drain"
    /\ DrainGate
    /\ id \in block_requests
    /\ block_requests' = block_requests \ {id}
    /\ outcome' = [outcome EXCEPT ![id] = [kind |-> "err", left |-> 0]]
    /\ logged' = logged \cup {id}
    /\ UNCHANGED <<pc, tip, requested_block_heights, downloaded_block_heights,
                   hashes, chunks, request_goal, drain_ret, blocks, block,
                   find_req, retries, state, issued, requests, found, calls,
                   fault, entry>>

\* block_requests.next() yields Ok(_) that is not Blocks: `continue`
DrainOtherUnreachable(id) ==
    /\ pc = "drain"
    /\ DrainGate
    /\ id \in block_requests
    /\ block_requests' = block_requests \ {id}
    /\ outcome' = [outcome EXCEPT ![id] = [kind |-> "other", left |-> 0]]
    /\ pc' = "panic"
    /\ fault' = "unreachable"
    /\ UNCHANGED <<tip, requested_block_heights, downloaded_block_heights,
                   hashes, chunks, request_goal, drain_ret, blocks, block,
                   find_req, retries, state, issued, requests, found, calls,
                   logged, entry>>
DrainOther(id) ==
    /\ pc = "drain"
    /\ DrainGate
    /\ id \in block_requests
    /\ block_requests' = block_requests \ {id}
    /\ outcome' = [outcome EXCEPT ![id] = [kind |-> "other", left |-> 0]]
    /\ UNCHANGED <<pc, tip, requested_block_heights, downloaded_block_heights,
                   hashes, chunks, request_goal, drain_ret, blocks, block,
                   find_req, retries, state, issued, requests, found, calls,
                   logged, fault, entry>>

\* block_requests.next() yields Ok(Blocks(bs)), bs of n blocks: the for loop
\* over bs starts
DrainBlocks(id, n) ==
    /\ pc = "drain"
    /\ DrainGate
    /\ id \in block_requests
    /\ block_requests' = block_requests \ {id}
    /\ outcome' = [outcome EXCEPT ![id] = [kind |-> "blocks", left |-> n]]
    /\ blocks' = n
    /\ block' = IF n = 0 THEN <<>> ELSE <<id>>
    /\ pc' = IF n = 0 THEN "drain" ELSE "for_block"
    /\ UNCHANGED <<tip, requested_block_heights, downloaded_block_heights,
                   hashes, chunks, request_goal, drain_ret, find_req, retries,
                   state, issued, requests, found, calls, logged, fault,
                   entry>>

\* BTreeSet::insert
InsertToggle(set, h) == IF h \in set THEN set \ {h} ELSE set \cup {h}
Insert(set, h) == set \cup {h}

\* `downloaded_block_heights.insert(block.coinbase_height().unwrap())`:
\* unwrap panics on a block without a coinbase height; b is the block taken
InsertHeight(b) ==
    /\ pc = "for_block"
    /\ IF b.coinbase_height = <<>>
       THEN /\ pc' = "panic"
            /\ fault' = "unwrap_height"
            /\ UNCHANGED <<downloaded_block_heights, block>>
       ELSE /\ downloaded_block_heights' =
                    Insert(downloaded_block_heights, b.coinbase_height[1])
            /\ block' = <<block[1], b>>
            /\ pc' = "add_block"
            /\ UNCHANGED fault
    /\ UNCHANGED <<tip, requested_block_heights, block_requests, hashes,
                   chunks, request_goal, drain_ret, blocks, find_req, retries,
                   state, issued, requests, outcome, found, calls, logged,
                   entry>>

\* state.ready_and() and call(AddBlock{block}) both succeeded: the State
\* Service acknowledged the block, the for loop moves on
AddBlockOkInOrder ==
    /\ pc = "add_block"
    /\ \A b \in state : b.coinbase_height[1] <= block[2].coinbase_height[1]
    /\ state' = state \cup {block[2]}
    /\ outcome' = [outcome EXCEPT ![block[1]].left = @ - 1]
    /\ blocks' = blocks - 1
    /\ block' = IF blocks = 1 THEN <<>> ELSE <<block[1]>>
    /\ pc' = IF blocks = 1 THEN "drain" ELSE "for_block"
    /\ UNCHANGED <<tip, requested_block_heights, downloaded_block_heights,
                   block_requests, hashes, chunks, request_goal, drain_ret,
                   find_req, retries, issued, requests, found, calls,
                   logged, fault, entry>>
AddBlockOk ==
    /\ pc = "add_block"
    /\ state' = state \cup {block[2]}
    /\ outcome' = [outcome EXCEPT ![block[1]].left = @ - 1]
    /\ blocks' = blocks - 1
    /\ block' = IF blocks = 1 THEN <<>> ELSE <<block[1]>>
    /\ pc' = IF blocks = 1 THEN "drain" ELSE "for_block"
    /\ UNCHANGED <<tip, requested_block_heights, downloaded_block_heights,
                   block_requests, hashes, chunks, request_goal, drain_ret,
                   find_req, retries, issued, requests, found, calls,
                   logged, fault, entry>>

\* state.ready_and() or the AddBlock call failed: `?` returns the error
AddBlockErrSwallowed(why) ==
    /\ pc = "add_block"
    /\ fault' = why
    /\ blocks' = blocks - 1
    /\ block' = IF blocks = 1 THEN <<>> ELSE <<block[1]>>
    /\ pc' = IF blocks = 1 THEN "drain" ELSE "for_block"
    /\ UNCHANGED <<tip, requested_block_heights, downloaded_block_heights,
                   block_requests, hashes, chunks, request_goal, drain_ret,
                   find_req, retries, state, issued, requests, outcome, found,
                   calls, logged, entry>>
AddBlockErr(why) ==
    /\ pc = "add_block"
    /\ pc' = "error"
    /\ fault' = why
    /\ UNCHANGED <<tip, requested_block_heights, downloaded_block_heights,
                   block_requests, hashes, chunks, request_goal, drain_ret,
                   blocks, block, find_req, retries, state, issued, requests,
                   outcome, found, calls, logged, entry>>

\* the loop condition fails: drain_requests returns Ok(()); after
\* drain_requests(300) run loops, after drain_requests(0) it awaits eternity
DrainReturn ==
    /\ pc = "drain"
    /\ ~DrainGate
    /\ pc' = drain_ret
    /\ entry' = NoEntry
    /\ UNCHANGED <<tip, requested_block_heights, downloaded_block_heights,
                   block_requests, hashes, chunks, request_goal, drain_ret,
                   blocks, block, find_req, retries, state, issued, requests,
                   outcome, found, calls, logged, fault>>

\* ------------------------------------------------------------------ Next
Next ==
    \/ RunLoop
    \/ RunFinalDrain
    \/ FindBlocksCall
    \/ FindBlocksNotReady
    \/ FindBlocksRetry
    \/ FindBlocksErr
    \/ FindBlocksOther
    \/ \E hs \in HashLists : FindBlocksOk(hs)
    \/ RequestChunk
    \/ RequestNotReady
    \/ RequestDone
    \/ \E id \in block_requests : DrainErr(id)
    \/ \E id \in block_requests : DrainOther(id)
    \/ \E id \in block_requests : \E n \in BlockCounts : DrainBlocks(id, n)
    \/ \E b \in Block : InsertHeight(b)
    \/ AddBlockOk
    \/ \E why \in {"state_ready", "state_call"} : AddBlockErr(why)
    \/ DrainReturn

Spec == Init /\ [][Next]_vars

\* ------------------------------------------------------------- fair runs
\* the steps of a run in which every collaborator answers with success:
\* FindBlocks returns a non-empty list of hashes (after at most MaxRetries
\* retries), peer_set accepts every BlocksByHash request, every future of the
\* pool completes, and the State Service acknowledges every AddBlock
NextLive ==
    \/ RunLoop
    \/ RunFinalDrain
    \/ FindBlocksCall
    \/ FindBlocksRetry
    \/ \E hs \in HashLists \ {<<>>} : FindBlocksOk(hs)
    \/ RequestChunk
    \/ RequestDone
    \/ \E id \in block_requests : DrainErr(id)
    \/ \E id \in block_requests : DrainOther(id)
    \/ \E id \in block_requests : \E n \in BlockCounts : DrainBlocks(id, n)
    \/ \E b \in Block : InsertHeight(b)
    \/ AddBlockOk
    \/ DrainReturn

\* run is one sequential task that the executor keeps polling, and every
\* awaited answer arrives: a step that can be taken is eventually taken
LiveSpec == Init /\ [][NextLive]_vars /\ WF_vars(NextLive)

\* ================================================================ claims
Max(a, b) == IF a > b THEN a ELSE b

\* the positions inside drain_requests
DrainPcs == {"drain", "for_block", "add_block"}

\* a step in which drain_requests returns Ok(())
DrainReturns == pc = "drain" /\ pc' \in {"run", "idle"}

\* C1: a drain_requests(g) call entered with n futures in the pool returns with
\* min(n, g) of them left, having resolved exactly max(0, n - g); no step inside
\* the call makes the pool larger; and with n <= g the call returns with the
\* pool, downloaded_block_heights and the State Service as they were on entry.
C1_DrainToGoal ==
    [][ /\ DrainReturns =>
            /\ PoolLen' = Min(entry.len, request_goal)
            /\ Cardinality(Resolved') - entry.resolved = Max(0, entry.len - request_goal)
            /\ entry.len <= request_goal =>
                   /\ block_requests' = entry.pool
                   /\ downloaded_block_heights' = entry.heights
                   /\ state' = entry.state
        /\ pc \in DrainPcs => Cardinality(block_requests') <= PoolLen
      ]_vars

\* a bounded drain entered above its goal has come down to it and is about to return
C1_Witness ==
    /\ pc = "drain"
    /\ request_goal = InFlightGoal
    /\ entry.len > request_goal
    /\ PoolLen = request_goal
    /\ downloaded_block_heights # entry.heights

\* a drain entered at or below its goal is about to return
C1_WitnessNoOp ==
    /\ pc = "drain"
    /\ request_goal = InFlightGoal
    /\ entry.len < request_goal
    /\ PoolLen = entry.len

\* C2: in every reachable state the pool holds at most InFlightGoal (300)
\* futures, the states between the fan-out and the bounded drain included.
C2_PoolAtMostCeiling == PoolLen <= InFlightGoal

\* C3: when the engine is idle the pool is empty and every fetch ever issued
\* has been resolved: one that resolved with blocks has had each of its blocks
\* acknowledged by the State Service, one that failed has been logged.
C3_IdleComplete ==
    pc = "idle" =>
        /\ block_requests = {}
        /\ blocks = 0
        /\ \A id \in 1..Len(issued) :
            /\ outcome[id].kind # "pending"
            /\ outcome[id].kind = "blocks" => outcome[id].left = 0
            /\ outcome[id].kind = "err" => id \in logged

\* the engine is idle after fetches that resolved with blocks and with a failure
C3_Witness ==
    /\ pc = "idle"
    /\ \E id \in 1..Len(issued) : outcome[id].kind = "blocks" /\ state # {}
    /\ \E id \in 1..Len(issued) : outcome[id].kind = "err"

\* a step in which FindBlocks answers with a non-empty list of hashes
DiscoveryAdvances == pc = "find_blocks" /\ pc' = "request_blocks"

\* C4: the tip changes only in the step that takes a successful FindBlocks
\* response, after which it is the last hash of that response; so the tip is
\* GENESIS at the start and every value it takes later is a hash a FindBlocks
\* response carried.
C4_TipFromDiscovery ==
    /\ tip = GENESIS
    /\ [][ /\ tip' # tip => DiscoveryAdvances
           /\ DiscoveryAdvances => tip' = hashes'[Len(hashes')]
         ]_vars

\* a response of several hashes whose last differs from its first was taken
C4_Witness ==
    /\ pc = "request_blocks"
    /\ Len(hashes) > 1
    /\ hashes[1] # hashes[Len(hashes)]
    /\ tip = hashes[Len(hashes)]

RECURSIVE Sum(_)
Sum(s) == IF s = <<>> THEN 0 ELSE Head(s) + Sum(Tail(s))

\* C5: requested_block_heights is the sum of the sizes of the hash lists the
\* successful FindBlocks calls returned; no step decreases it, and only the
\* step that takes a FindBlocks response changes it.
C5_RequestedIsSum ==
    /\ [](requested_block_heights = Sum(found))
    /\ [][ /\ requested_block_heights' >= requested_block_heights
           /\ requested_block_heights' # requested_block_heights =>
                  pc = "find_blocks" /\ Len(found') = Len(found) + 1
         ]_vars

\* two discoveries have been counted, one of them of several hashes
C5_Witness ==
    /\ Len(found) = 2
    /\ found[2] > 1
    /\ requested_block_heights = found[1] + found[2]
    /\ pc = "drain"

\* C6: a FindBlocks request is issued, and is outstanding, only while
\* requested_block_heights < TargetHeight; and when run leaves its loop the
\* counter without the last discovered batch is below TargetHeight.
C6_TerminationGate ==
    /\ [](find_req # <<>> => requested_block_heights < TargetHeight)
    /\ [][ /\ find_req' # find_req /\ find_req' # <<>> =>
                  requested_block_heights < TargetHeight
           /\ pc = "run" /\ pc' = "drain" =>
                  /\ requested_block_heights >= TargetHeight
                  /\ found # <<>>
                  /\ requested_block_heights - found[Len(found)] < TargetHeight
         ]_vars

\* the loop was left with the counter past the target
C6_Witness ==
    /\ pc = "drain"
    /\ drain_ret = "idle"
    /\ requested_block_heights > TargetHeight
    /\ Len(found) = 2

RECURSIVE Flatten(_)
Flatten(ss) == IF ss = <<>> THEN <<>> ELSE Head(ss) \o Flatten(Tail(ss))

Ceil(k, c) == (k + c - 1) \div c

\* the futures request_blocks has pushed for the batch it is working on
BatchIds == {i \in 1..Len(issued) : issued[i].batch = Len(found)}

\* C7: when request_blocks has gone through a batch of K hashes it has issued
\* ceil(K / ChunkSize) BlocksByHash requests and pushed that many futures into
\* the pool; each request holds between 1 and ChunkSize hashes, and the requests
\* in the order issued, laid end to end, are the batch (every hash in exactly
\* one request, in batch order).  While it is going through the batch the
\* requests so far followed by the slice not yet chunked are the batch.
C7_Chunking ==
    pc = "request_blocks" =>
        /\ Flatten(requests) \o chunks = hashes
        /\ \A i \in 1..Len(requests) :
               Len(requests[i]) >= 1 /\ Len(requests[i]) <= ChunkSize
        /\ Cardinality(BatchIds) = Len(requests)
        /\ BatchIds \subseteq block_requests
        /\ \A i \in BatchIds : issued[i].chunk = i - (Len(issued) - Len(requests))
        /\ chunks = <<>> => Len(requests) = Ceil(Len(hashes), ChunkSize)

\* a batch that does not divide into whole chunks has been fanned out
C7_Witness ==
    /\ pc = "request_blocks"
    /\ chunks = <<>>
    /\ Len(hashes) = ChunkSize + 1
    /\ Len(requests) = 2
    /\ Len(requests[2]) = 1

\* a step in which the future `id` resolves with an error
FetchFails(id) == outcome[id].kind = "pending" /\ outcome'[id].kind = "err"

RECURSIVE SumCeil(_)
SumCeil(s) == IF s = <<>> THEN 0 ELSE Ceil(Head(s), ChunkSize) + SumCeil(Tail(s))

\* C8: when a future of the pool resolves with an error it leaves the pool and
\* is logged, downloaded_block_heights and the State Service are unchanged, run
\* does not end, drain_requests is back at its loop test with the other futures
\* still in the pool, and nothing is issued for it again: the step issues no
\* request, and the engine never issues more requests than the chunks of the
\* batches it discovered.
C8_FetchErrorDropped ==
    /\ [](Len(issued) <= SumCeil(found))
    /\ [][ /\ \A id \in 1..Len(outcome) : FetchFails(id) =>
               /\ id \in block_requests
               /\ block_requests' = block_requests \ {id}
               /\ id \in logged'
               /\ downloaded_block_heights' = downloaded_block_heights
               /\ state' = state
               /\ pc = "drain" /\ pc' = "drain"
               /\ fault' = "none"
               /\ issued' = issued
               /\ find_req' = find_req
         ]_vars

\* a fetch failed and the drain goes on with futures left in the pool
C8_Witness ==
    /\ pc = "drain"
    /\ logged # {}
    /\ block_requests # {}
    /\ PoolLen > request_goal

StateFaults == {"state_ready", "state_call"}

\* C9: once the State Service has failed, run has returned the error, and from
\* then on no block is acknowledged, no future of the pool is resolved, and no
\* FindBlocks or BlocksByHash request is issued.
C9_StateFailureFatal ==
    /\ [](fault \in StateFaults => pc = "error")
    /\ [][ /\ fault \in StateFaults =>
               /\ state' = state
               /\ downloaded_block_heights' = downloaded_block_heights
               /\ outcome' = outcome
               /\ block_requests' = block_requests
               /\ issued' = issued
               /\ find_req' = find_req
         ]_vars

\* the State Service failed while futures were still in the pool
C9_Witness ==
    /\ fault \in StateFaults
    /\ pc = "error"
    /\ block_requests # {}
    /\ blocks > 0

\* a step that runs downloaded_block_heights.insert(h)
Inserts(h) ==
    /\ pc = "for_block"
    /\ pc' = "add_block"
    /\ block'[2].coinbase_height = <<h>>

\* C10: no step removes a height from downloaded_block_heights; inserting a
\* height adds exactly that height, and nothing when it is already there; and
\* height 0 is in the set from the initial state on.
C10_HeightsGrow ==
    /\ 0 \in downloaded_block_heights
    /\ [](0 \in downloaded_block_heights)
    /\ [][ /\ downloaded_block_heights \subseteq downloaded_block_heights'
           /\ \A h \in Heights : Inserts(h) =>
                  /\ downloaded_block_heights' = downloaded_block_heights \cup {h}
                  /\ h \in downloaded_block_heights =>
                         /\ downloaded_block_heights' = downloaded_block_heights
                         /\ Cardinality(downloaded_block_heights') =
                                Cardinality(downloaded_block_heights)
         ]_vars

\* a height other than genesis was inserted a second time
C10_Witness ==
    /\ pc = "add_block"
    /\ block[2].coinbase_height # <<0>>
    /\ block[2].coinbase_height[1] \in entry.heights

\* the futures issued and not yet completed
Pending == {i \in 1..Len(outcome) : outcome[i].kind = "pending"}

\* C11: the pool holds exactly the futures issued and not yet resolved, so
\* its size is the number issued less the number resolved; a future enters
\* the pool only in the step that issues its request, and leaves it only in
\* the step in which that same future completes, with a result or an error.
C11_PoolIsOutstanding ==
    /\ [](/\ block_requests = Pending
          /\ Len(outcome) = Len(issued)
          /\ PoolLen = Len(issued) - Cardinality(Resolved))
    /\ [][ /\ \A id \in block_requests' \ block_requests :
                  /\ pc = "request_blocks"
                  /\ Len(issued') = Len(issued) + 1
                  /\ id = Len(issued')
                  /\ block_requests' = block_requests \cup {id}
           /\ \A id \in block_requests \ block_requests' :
                  /\ pc = "drain"
                  /\ outcome[id].kind = "pending"
                  /\ outcome'[id].kind \in {"err", "other", "blocks"}
                  /\ block_requests' = block_requests \ {id}
         ]_vars

\* some futures have been resolved while others are still in the pool
C11_Witness ==
    /\ pc = "drain"
    /\ Cardinality(Resolved) >= 1
    /\ PoolLen >= 2

\* C12: discovery is strictly sequential.  At most one FindBlocks request is
\* outstanding; a request is issued only when every earlier one has been
\* answered, and the answer to the one before it has already become the tip;
\* the request names exactly the current tip as its one known block and has
\* no stop hash.
C12_SequentialDiscovery ==
    /\ [](/\ calls - Len(found) \in {0, 1}
          /\ find_req # <<>> =>
                 /\ pc = "find_blocks"
                 /\ calls = Len(found) + 1
                 /\ find_req = <<[known_blocks |-> <<tip>>, stop |-> <<>>]>>)
    /\ [][ /\ calls' # calls =>
                 /\ pc = "next_hashes"
                 /\ find_req = <<>>
                 /\ calls = Len(found)
                 /\ calls' = calls + 1
                 /\ find_req' = <<[known_blocks |-> <<tip>>, stop |-> <<>>]>>
           /\ found' # found =>
                 /\ find_req # <<>>
                 /\ find_req' = <<>>
                 /\ Len(found') = calls
                 /\ pc' # "panic" => tip' = hashes'[Len(hashes')]
         ]_vars

\* a second request is outstanding, after the first one's result moved the tip
C12_Witness ==
    /\ pc = "find_blocks"
    /\ calls = 2
    /\ Len(found) = 1
    /\ tip # GENESIS
    /\ find_req[1].known_blocks = <<tip>>

\* C13: when the final drain returns, the engine is idle, and idle is for
\* ever: no step is taken from the idle position, so run never returns and
\* nothing of the engine's state changes again.
C13_IdleForever ==
    /\ [](pc = "idle" => fault = "none" /\ request_goal = FinalGoal)
    /\ [][ /\ pc # "idle"
           /\ (/\ pc = "drain"
               /\ request_goal = FinalGoal
               /\ pc' \notin DrainPcs \cup {"error", "panic"}) => pc' = "idle"
         ]_vars

\* the engine idles after two rounds of discovery reached the target
C13_Witness ==
    /\ pc = "idle"
    /\ calls >= 2
    /\ requested_block_heights >= TargetHeight
    /\ entry = NoEntry

\* C14: the count of requested hashes bounds download progress: in every
\* state the number of recorded heights other than the genesis height 0 is at
\* most requested_block_heights.
C14_RequestedBoundsDownloaded ==
    Cardinality(downloaded_block_heights \ {0}) <= requested_block_heights

\* a step in which future id resolves with an Ok response that is not Blocks
FetchOther(id) == outcome[id].kind = "pending" /\ outcome'[id].kind = "other"

\* C15: when a future of the pool resolves with a successful response that is
\* not a list of blocks, it leaves the pool; the tip, requested_block_heights,
\* downloaded_block_heights and the State Service are unchanged, no AddBlock
\* is started, nothing is logged, run does not end, and drain_requests is back
\* at its loop test.
C15_NonBlocksIgnored ==
    [][ \A id \in 1..Len(outcome) : FetchOther(id) =>
            /\ id \in block_requests
            /\ block_requests' = block_requests \ {id}
            /\ tip' = tip
            /\ requested_block_heights' = requested_block_heights
            /\ downloaded_block_heights' = downloaded_block_heights
            /\ state' = state
            /\ blocks' = 0 /\ block' = <<>>
            /\ logged' = logged
            /\ pc = "drain" /\ pc' = "drain"
            /\ fault' = "none"
            /\ request_goal' = request_goal
      ]_vars

\* a response that was not Blocks was dropped and the drain goes on
C15_Witness ==
    /\ pc = "drain"
    /\ \E id \in 1..Len(outcome) : outcome[id].kind = "other"
    /\ PoolLen > request_goal

\* C16: the engine puts no height order on commits.  Whenever a block has been
\* handed to the State Service, its acknowledgement can be taken, whatever
\* heights the State Service already holds; and the future a drain takes next
\* may be any future of the pool, not the one issued first.
C16_NoHeightOrderAtCommit ==
    /\ pc = "add_block" => ENABLED AddBlockOk
    /\ (pc = "drain" /\ DrainGate) =>
           \A id \in block_requests : ENABLED DrainBlocks(id, 1)

\* a block of greater height was committed before a block of smaller height
\* that was requested earlier: future id1 was still in the pool when the
\* running drain_requests call was entered, every other future that resolved
\* with blocks was issued after id1 and resolved before that entry, and a
\* block committed since the entry (one of id1) is lower than a block
\* committed before it
C16_Witness ==
    /\ entry # NoEntry
    /\ \E id1 \in entry.pool :
        /\ outcome[id1].kind = "blocks"
        /\ \A j \in 1..Len(outcome) :
               (j # id1 /\ outcome[j].kind = "blocks") =>
                   j > id1 /\ j \notin entry.pool
        /\ \E b1 \in state \ entry.state :
           \E b2 \in entry.state :
               b1.coinbase_height[1] < b2.coinbase_height[1]

\* the ways run may end according to C17: a failure a collaborator reported
\* (discovery, issuing a fetch, the State Service) or a FindBlocks response
\* that is not a list of hashes
ReportedFaults ==
    {"discovery", "issue", "state_ready", "state_call", "unreachable"}

\* C17: run ends only on a failure reported by a collaborator or on a
\* FindBlocks response that is not a list of hashes; no successful FindBlocks
\* response carrying a list of hashes, the empty list included, and no
\* successful BlocksByHash response, whatever its blocks, ends run.
C17_AbortOnlyOnReportedFailure ==
    /\ pc \in {"error", "panic"} => fault \in ReportedFaults
    /\ fault # "none" => fault \in ReportedFaults

\* the heights of the blocks the State Service acknowledged
AckedHeights == {b.coinbase_height[1] : b \in state}

\* the height of the block whose AddBlock is awaited, or failed and ended run
UnackedHeight ==
    IF pc = "add_block" \/ (pc = "error" /\ fault \in StateFaults)
    THEN {block[2].coinbase_height[1]}
    ELSE {}

\* C18 as stated: in every state that is not in the middle of an AddBlock,
\* the states after run ended with an error included, every recorded height
\* other than the genesis height 0 is the height of an acknowledged block.
C18_HeightsAcked ==
    pc # "add_block" => downloaded_block_heights \ {0} \subseteq AckedHeights

\* C18 amended: every recorded height other than 0 is the height of an
\* acknowledged block, or of the one block whose AddBlock is awaited or has
\* failed and ended run; in every other state all of them are acknowledged.
C18_HeightsAckedOrFailed ==
    /\ downloaded_block_heights \ {0} \subseteq AckedHeights \cup UnackedHeight
    /\ AckedHeights \subseteq downloaded_block_heights

\* run ended on a State Service failure: the failed block's height is
\* recorded and unacknowledged, next to an acknowledged one
C18_Witness ==
    /\ pc = "error"
    /\ fault \in StateFaults
    /\ block[2].coinbase_height[1] \in downloaded_block_heights \ AckedHeights
    /\ AckedHeights # {}

\* the positions of run from the loop head to the FindBlocks response
DiscoveryPcs == {"run", "next_hashes", "find_blocks"}

\* C20: with batches of at most MaxBatch hashes, the pool never holds more
\* than InFlightGoal + ceil(MaxBatch / ChunkSize) futures, and at the head of
\* the run loop, and until the FindBlocks response is taken, it holds at most
\* InFlightGoal.
C20_PoolBound ==
    /\ \A i \in 1..Len(found) : found[i] <= MaxBatch
    /\ PoolLen <= InFlightGoal + Ceil(MaxBatch, ChunkSize)
    /\ pc \in DiscoveryPcs => PoolLen <= InFlightGoal

\* the fan-out of a largest batch on a pool that was not empty took the pool
\* over InFlightGoal
C20_Witness ==
    /\ pc = "drain"
    /\ request_goal = InFlightGoal
    /\ Len(found) >= 2
    /\ found[Len(found)] = MaxBatch
    /\ PoolLen > InFlightGoal

\* C19: in a fair run in which every collaborator answers with success, the
\* engine eventually idles with an empty pool and requested_block_heights at
\* or past TargetHeight.
C19_EventuallyIdle ==
    <>(/\ pc = "idle"
       /\ block_requests = {}
       /\ requested_block_heights >= TargetHeight)

====
